---- MODULE Spec2Model ----
(***************************************************************************)
(* Model of libserialize/hex.rs: ToHex for [u8] (to_hex) and FromHex for   *)
(* str (from_hex).  Bytes are integers 0..255, a str is the sequence of    *)
(* its UTF-8 bytes (self.bytes()) together with the sequence of its chars  *)
(* (self.chars()), a Vec<u8> is a sequence of bytes.  Sequences are        *)
(* 1-based, so the code's self[idx] is self[idx + 1] here.                  *)
(***************************************************************************)
EXTENDS Integers, Sequences, FiniteSets, TLC

VARIABLES call, data, v, text, self, pc, idx, buf, modulus, b, result

vars == <<call, data, v, text, self, pc, idx, buf, modulus, b, result>>

----------------------------------------------------------------------------
(* Bounds of the model *)

\* longest str (in chars) handed directly to from_hex
MaxChars == 4
\* longest byte slice handed to to_hex (and then decoded again)
MaxData == 3
\* number of whitespace bytes inserted when comparing two inputs
MaxInsert == 1

----------------------------------------------------------------------------
(* Sequences of bounded length *)

SeqsUpTo(S, n) == UNION {[1..k -> S] : k \in 0..n}

RECURSIVE Flatten(_)
Flatten(ss) == IF ss = <<>> THEN <<>> ELSE Head(ss) \o Flatten(Tail(ss))

----------------------------------------------------------------------------
(* str: chars and their UTF-8 bytes *)

\* the UTF-8 encoding of one char (a Unicode scalar value)
EncodeUtf8(c) ==
    IF c < 128 THEN <<c>>
    ELSE IF c < 2048 THEN <<192 + (c \div 64), 128 + (c % 64)>>
    ELSE IF c < 65536
         THEN <<224 + (c \div 4096), 128 + ((c \div 64) % 64), 128 + (c % 64)>>
    ELSE <<240 + (c \div 262144), 128 + ((c \div 4096) % 64),
           128 + ((c \div 64) % 64), 128 + (c % 64)>>

\* self.bytes() of the str whose chars are cs
StrBytes(cs) == Flatten([i \in 1..Len(cs) |-> EncodeUtf8(cs[i])])

\* str::is_char_boundary: the check made by the slice self[i..]
IsCharBoundary(s, i) ==
    \/ i = 0
    \/ i = Len(s)
    \/ /\ i < Len(s)
       /\ (s[i + 1] < 128 \/ s[i + 1] >= 192)

\* self[i..].chars().next().unwrap(): <<ch>>, or <<>> when the slice (i is
\* not a char boundary) or the unwrap (nothing is left) panics
FirstCharFrom(s, i) ==
    IF ~IsCharBoundary(s, i) \/ i >= Len(s) THEN <<>>
    ELSE LET c0 == s[i + 1]
             cont(k) == IF i + 1 + k <= Len(s) THEN s[i + 1 + k] % 64 ELSE 0
         IN  IF c0 < 128 THEN <<c0>>
             ELSE IF c0 < 224 THEN <<(c0 % 32) * 64 + cont(1)>>
             ELSE IF c0 < 240
                  THEN <<(c0 % 16) * 4096 + cont(1) * 64 + cont(2)>>
             ELSE <<(c0 % 8) * 262144 + cont(1) * 4096 + cont(2) * 64 + cont(3)>>

----------------------------------------------------------------------------
(* to_hex *)

CHARS_UPPER == <<48, 49, 50, 51, 52, 53, 54, 55, 56, 57, 65, 66, 67, 68, 69, 70>>

\* the lookup table b"0123456789abcdef"
CHARS == <<48, 49, 50, 51, 52, 53, 54, 55, 56, 57, 97, 98, 99, 100, 101, 102>>

PushHexSwapped(vec, byte) ==
    vec \o <<CHARS[(byte % 16) + 1], CHARS[(byte \div 16) + 1]>>

\* one iteration of `for &byte in self`: the two pushes
PushHex(vec, byte) ==
    vec \o <<CHARS[(byte \div 16) + 1], CHARS[(byte % 16) + 1]>>

RECURSIVE to_hex_from(_, _)
to_hex_from(bytes, vec) ==
    IF bytes = <<>> THEN vec
    ELSE to_hex_from(Tail(bytes), PushHex(vec, Head(bytes)))

to_hex(bytes) == to_hex_from(bytes, <<>>)

----------------------------------------------------------------------------
(* from_hex: the arms of `match byte` *)

\* b'A'..=b'F'
IsUpperHex(byte) == byte \in 65..70

\* b'a'..=b'f'
IsLowerHex(byte) == byte \in 97..102

\* b'0'..=b'9'
IsDecDigit(byte) == byte \in 48..57

IsSkippedNoTab(byte) == byte \in {32, 13, 10}

IsSkippedOrNonAscii(byte) == byte \in {32, 13, 10, 9} \/ byte >= 194
\* b' ' | b'\r' | b'\n' | b'\t'
IsSkipped(byte) == byte \in {32, 13, 10, 9}

\* one of the three digit arms matches

IsHexByte(byte) == IsUpperHex(byte) \/ IsLowerHex(byte) \/ IsDecDigit(byte)

\* the value OR-ed into buf by the three digit arms
Nibble(byte) ==
    IF IsUpperHex(byte) THEN byte - 65 + 10
    ELSE IF IsLowerHex(byte) THEN byte - 97 + 10
    ELSE byte - 48

Shl4Wide(x) == x * 16

\* buf <<= 4 on a u8
Shl4(x) == (x * 16) % 256

\* buf >>= 4 on a u8
Shr4(x) == x \div 16

\* buf after `buf <<= 4; buf |= nibble` (the low four bits are clear)
DigitBuf(x, byte) == Shl4(x) + Nibble(byte)

SkipBufNoRestore(x) == Shl4(x)

\* buf after `buf <<= 4; buf >>= 4; continue`
SkipBuf(x) == Shr4(Shl4(x))

SkipModulusCounted(m) == IF m + 1 = 2 THEN 0 ELSE m + 1

\* modulus after the whitespace arm: `continue` skips `modulus += 1`
SkipModulus(m) == m

\* modulus after `modulus += 1; if modulus == 2 { modulus = 0; ... }`
DigitModulus(m) == IF m + 1 = 2 THEN 0 ELSE m + 1

DigitOutAlways(m, out, x) == Append(out, x)

\* b after the same statements: the push happens when modulus reaches 2
DigitOut(m, out, x) == IF m + 1 = 2 THEN Append(out, x) ELSE out

InvalidCharStrippedOffset(s, i) ==
    LET ch == FirstCharFrom(s, i)
    IN  IF ch = <<>> THEN [kind |-> "panic"]
        ELSE [kind |-> "InvalidHexCharacter", ch |-> ch[1],
              idx |-> Cardinality({j \in 1..i : ~IsSkipped(s[j])})]

\* the `_` arm: self[idx..].chars().next().unwrap(), then the Err
InvalidChar(s, i) ==
    LET ch == FirstCharFrom(s, i)
    IN  IF ch = <<>> THEN [kind |-> "panic"]
        ELSE [kind |-> "InvalidHexCharacter", ch |-> ch[1], idx |-> i]

EndOfInputLenient(m, out) == [kind |-> "Ok", val |-> out]

\* `match modulus` after the loop
EndOfInput(m, out) ==
    IF m = 0 THEN [kind |-> "Ok", val |-> out]
    ELSE [kind |-> "InvalidHexLength"]

\* the whole function, from the loop state (i, x, m, out)
RECURSIVE from_hex_loop(_, _, _, _, _)
from_hex_loop(s, i, x, m, out) ==
    IF i >= Len(s) THEN EndOfInput(m, out)
    ELSE LET byte == s[i + 1]
         IN  IF IsHexByte(byte)
             THEN from_hex_loop(s, i + 1, DigitBuf(x, byte), DigitModulus(m),
                                DigitOut(m, out, DigitBuf(x, byte)))
             ELSE IF IsSkipped(byte)
             THEN from_hex_loop(s, i + 1, SkipBuf(x), SkipModulus(m), out)
             ELSE InvalidChar(s, i)

from_hex(s) == from_hex_loop(s, 0, 0, 0, <<>>)

----------------------------------------------------------------------------
(* Inputs *)

\* bytes encoded one at a time, as test_to_hex_all_bytes does
AllBytes == 0..255

\* bytes used in longer slices
SampleBytes == {0, 15, 111, 165, 255}

\* chars of the strs handed to from_hex: 0 6 F f, space, LF, y, euro
SampleChars == {48, 54, 70, 102, 32, 10, 121, 8364}

\* every ASCII char and some chars of two, three and four UTF-8 bytes
ProbeChars == (0..127) \cup {128, 160, 233, 2047, 2048, 8364, 65535, 65536, 128512}

DataInputs == SeqsUpTo(SampleBytes, MaxData) \cup {<<x>> : x \in AllBytes}

TextInputs ==
    SeqsUpTo(SampleChars, MaxChars)
        \cup {<<c>> : c \in ProbeChars}
        \cup {<<54, c>> : c \in ProbeChars}
        \cup {<<c, 54>> : c \in ProbeChars}

NoResult == [kind |-> "none"]

----------------------------------------------------------------------------
(* The state machine *)

Init ==
    /\ idx = 0
    /\ buf = 0
    /\ modulus = 0
    /\ b = <<>>
    /\ v = <<>>
    /\ result = NoResult
    /\ \/ /\ call = "to_hex"
          /\ data \in DataInputs
          /\ text = <<>>
          /\ self = <<>>
          /\ pc = "to_hex"
       \/ /\ call = "from_hex"
          /\ data = <<>>
          /\ text \in TextInputs
          /\ self = StrBytes(text)
          /\ pc = "from_hex"

\* to_hex, one iteration of the loop over the bytes
ToHexByte ==
    /\ pc = "to_hex"
    /\ Len(v) < 2 * Len(data)
    /\ v' = PushHex(v, data[(Len(v) \div 2) + 1])
    /\ UNCHANGED <<call, data, text, self, pc, idx, buf, modulus, b, result>>

\* to_hex returns String::from_utf8_unchecked(v); the caller decodes it
ToHexReturn ==
    /\ pc = "to_hex"
    /\ Len(v) = 2 * Len(data)
    /\ self' = v
    /\ text' = v
    /\ pc' = "from_hex"
    /\ UNCHANGED <<call, data, v, idx, buf, modulus, b, result>>

\* from_hex, an iteration that takes one of the three digit arms
FromHexDigit ==
    /\ pc = "from_hex"
    /\ idx < Len(self)
    /\ IsHexByte(self[idx + 1])
    /\ buf' = DigitBuf(buf, self[idx + 1])
    /\ modulus' = DigitModulus(modulus)
    /\ b' = DigitOut(modulus, b, buf')
    /\ idx' = idx + 1
    /\ UNCHANGED <<call, data, v, text, self, pc, result>>

\* from_hex, an iteration that takes the whitespace arm
FromHexSkip ==
    /\ pc = "from_hex"
    /\ idx < Len(self)
    /\ ~IsHexByte(self[idx + 1])
    /\ IsSkipped(self[idx + 1])
    /\ buf' = SkipBuf(buf)
    /\ modulus' = SkipModulus(modulus)
    /\ idx' = idx + 1
    /\ UNCHANGED <<call, data, v, text, self, pc, b, result>>

\* from_hex, an iteration that takes the `_` arm and returns
FromHexInvalid ==
    /\ pc = "from_hex"
    /\ idx < Len(self)
    /\ ~IsHexByte(self[idx + 1])
    /\ ~IsSkipped(self[idx + 1])
    /\ buf' = Shl4(buf)
    /\ result' = InvalidChar(self, idx)
    /\ pc' = "done"
    /\ UNCHANGED <<call, data, v, text, self, idx, modulus, b>>

\* from_hex, the match after the loop
FromHexEnd ==
    /\ pc = "from_hex"
    /\ idx >= Len(self)
    /\ result' = EndOfInput(modulus, b)
    /\ pc' = "done"
    /\ UNCHANGED <<call, data, v, text, self, idx, buf, modulus, b>>

Next ==
    \/ ToHexByte
    \/ ToHexReturn
    \/ FromHexDigit
    \/ FromHexSkip
    \/ FromHexInvalid
    \/ FromHexEnd

Spec == Init /\ [][Next]_vars

----------------------------------------------------------------------------
(* Vocabulary of the properties, stated without the decoder's operators *)

HexDigitChars ==
    {48, 49, 50, 51, 52, 53, 54, 55, 56, 57}
        \cup {97, 98, 99, 100, 101, 102}
        \cup {65, 66, 67, 68, 69, 70}

WhitespaceChars == {32, 13, 10, 9}

\* v: '0'-'9' to 0-9, 'a'-'f' and 'A'-'F' to 10-15
DigitValue(c) ==
    CASE c \in 48..57 -> c - 48
      [] c \in 97..102 -> c - 87
      [] c \in 65..70 -> c - 55

\* the lowercase hex digit of a nibble value
LowerHexDigit(n) == IF n < 10 THEN 48 + n ELSE 87 + n

IsHexDigitChar(c) == c \in HexDigitChars

\* the hex digits of s in order, everything else removed
HexDigitsOf(s) == SelectSeq(s, IsHexDigitChar)

\* the bytes spelled by a sequence of hex digits, two digits per byte
PairedBytes(d) ==
    [k \in 1..(Len(d) \div 2) |-> 16 * DigitValue(d[2 * k - 1]) + DigitValue(d[2 * k])]

\* zero-based offsets of the bytes of s that are neither digit nor whitespace
InvalidOffsets(s) ==
    {i \in 0..(Len(s) - 1) : s[i + 1] \notin (HexDigitChars \cup WhitespaceChars)}

MinOf(S) == CHOOSE x \in S : \A y \in S : x <= y

Utf8Width(c) == IF c < 128 THEN 1 ELSE IF c < 2048 THEN 2 ELSE IF c < 65536 THEN 3 ELSE 4

RECURSIVE ByteOffsetOf(_, _)
\* byte offset at which the k-th char (1-based) of cs starts
ByteOffsetOf(cs, k) ==
    IF k <= 1 THEN 0 ELSE ByteOffsetOf(cs, k - 1) + Utf8Width(cs[k - 1])

\* <<c>> when the char c of cs starts at byte offset off, <<>> when none does
CharStartingAt(cs, off) ==
    LET ks == {k \in 1..Len(cs) : ByteOffsetOf(cs, k) = off}
    IN  IF ks = {} THEN <<>> ELSE <<cs[CHOOSE k \in ks : TRUE]>>

ToUpperAscii(s) == [i \in 1..Len(s) |-> IF s[i] \in 97..122 THEN s[i] - 32 ELSE s[i]]

ToLowerAscii(s) == [i \in 1..Len(s) |-> IF s[i] \in 65..90 THEN s[i] + 32 ELSE s[i]]

InsertAt(s, p, w) == SubSeq(s, 1, p) \o <<w>> \o SubSeq(s, p + 1, Len(s))

RECURSIVE WithInserted(_, _)
\* s with at most n whitespace bytes inserted anywhere
WithInserted(s, n) ==
    IF n = 0 THEN {s}
    ELSE LET prev == WithInserted(s, n - 1)
         IN  prev \cup UNION {{InsertAt(t, p, w) : p \in 0..Len(t),
                                                     w \in WhitespaceChars} : t \in prev}

Returned == pc = "done"

----------------------------------------------------------------------------
(* Properties *)

\* C1: round trip: for every byte sequence (the empty one included), from_hex
\* of its to_hex succeeds and returns exactly that byte sequence.
C1_RoundTrip ==
    (Returned /\ call = "to_hex") => result = [kind |-> "Ok", val |-> data]

C1_Witness ==
    /\ Returned
    /\ call = "to_hex"
    /\ data = <<165, 15, 255>>
    /\ result.kind = "Ok"

\* C2: to_hex of n bytes has exactly 2n characters, and the characters at
\* positions 2i and 2i+1 are the lowercase hex digits of b[i] >> 4 and
\* b[i] & 0xF: high nibble first.
C2_ToHexDigits ==
    (call = "to_hex" /\ pc # "to_hex") =>
        /\ Len(self) = 2 * Len(data)
        /\ \A i \in 0..(Len(data) - 1) :
              /\ self[2 * i + 1] = LowerHexDigit(data[i + 1] \div 16)
              /\ self[2 * i + 2] = LowerHexDigit(data[i + 1] % 16)

C2_Witness ==
    /\ call = "to_hex"
    /\ pc = "from_hex"
    /\ data = <<111, 165>>
    /\ self = <<54, 102, 97, 53>>

\* C3: from_hex returns an error if and only if the input contains a byte
\* that is neither a hex digit nor one of the four whitespace bytes, or the
\* number of hex digits is odd; on every other input it returns Ok.
C3_ErrorIff ==
    Returned =>
        LET bad == \/ InvalidOffsets(self) # {}
                   \/ Len(HexDigitsOf(self)) % 2 = 1
        IN  /\ result.kind \in {"InvalidHexCharacter", "InvalidHexLength"} <=> bad
            /\ result.kind = "Ok" <=> ~bad

C3_Witness ==
    /\ Returned
    /\ call = "from_hex"
    /\ self = <<32, 10, 32>>
    /\ result = [kind |-> "Ok", val |-> <<>>]

\* C4: when from_hex succeeds its result is the byte sequence whose k-th byte
\* is 16*v(d[2k]) + v(d[2k+1]), d being the hex digits of the input in order;
\* upper-case and lower-case digits decode identically, and each byte depends
\* only on its own two digits.
C4_DecodedBytes ==
    (Returned /\ result.kind = "Ok") =>
        /\ result.val = PairedBytes(HexDigitsOf(self))
        /\ from_hex(ToUpperAscii(self)) = result
        /\ from_hex(ToLowerAscii(self)) = result

C4_Witness ==
    /\ Returned
    /\ call = "from_hex"
    /\ self = <<102, 70, 48, 54>>
    /\ result = [kind |-> "Ok", val |-> <<255, 6>>]

\* C5: if the input contains a byte that is neither a hex digit nor
\* whitespace, from_hex fails with InvalidHexCharacter(c, i), i the zero-based
\* byte offset of the first such byte (whitespace counted) and c the character
\* at that offset, whether a high or a low nibble was awaited.
C5_FirstInvalidChar ==
    (Returned /\ InvalidOffsets(self) # {}) =>
        LET i == MinOf(InvalidOffsets(self))
        IN  /\ CharStartingAt(text, i) # <<>>
            /\ result = [kind |-> "InvalidHexCharacter",
                         ch |-> CharStartingAt(text, i)[1], idx |-> i]

C5_Witness ==
    /\ Returned
    /\ self = <<54, 32, 54, 121>>
    /\ modulus = 0
    /\ result = [kind |-> "InvalidHexCharacter", ch |-> 121, idx |-> 3]

\* C6 as stated: decoding any string with an odd number of hex digits
\* (whitespace stripped) fails with InvalidHexLength.
C6_OddDigitsAnyString ==
    (Returned /\ Len(HexDigitsOf(self)) % 2 = 1) =>
        result = [kind |-> "InvalidHexLength"]

\* C6 amended: decoding a string made only of hex digits and the four
\* whitespace characters, with an odd number of hex digits, fails with
\* InvalidHexLength.
C6_OddDigitsHexString ==
    (Returned /\ Len(HexDigitsOf(self)) % 2 = 1 /\ InvalidOffsets(self) = {}) =>
        result = [kind |-> "InvalidHexLength"]

C6_Witness ==
    /\ Returned
    /\ self = <<54, 54, 32, 54>>
    /\ result = [kind |-> "InvalidHexLength"]

\* C7: whitespace transparency: when from_hex succeeds on s, it succeeds with
\* the same byte sequence on s with space, CR, LF or TAB characters inserted
\* at any positions (start, end, between pairs, between two nibbles).
C7_WhitespaceTransparent ==
    (Returned /\ result.kind = "Ok") =>
        \A t \in WithInserted(self, MaxInsert) : from_hex(t) = result

C7_Witness ==
    /\ Returned
    /\ call = "from_hex"
    /\ self = <<54, 102, 70, 48>>
    /\ result = [kind |-> "Ok", val |-> <<111, 240>>]

\* C8: from_hex never panics on valid UTF-8 input: when the invalid-character
\* arm is taken at byte index idx, every earlier byte was ASCII and idx is a
\* character boundary, and the error carries the whole character that starts
\* at idx, never a continuation byte.
C8_NoPanic ==
    /\ result.kind # "panic"
    /\ (Returned /\ result.kind \notin {"Ok", "InvalidHexLength"}) =>
          /\ \A j \in 1..idx : self[j] < 128
          /\ CharStartingAt(text, idx) # <<>>
          /\ result.kind = "InvalidHexCharacter"
          /\ result.idx = idx
          /\ <<result.ch>> = CharStartingAt(text, idx)
          /\ self[idx + 1] \notin 128..191

C8_Witness ==
    /\ Returned
    /\ text = <<54, 32, 8364, 121>>
    /\ self = <<54, 32, 226, 130, 172, 121>>
    /\ result = [kind |-> "InvalidHexCharacter", ch |-> 8364, idx |-> 2]

\* number of hex digits among the first idx bytes of the input
DigitsConsumed == Len(HexDigitsOf(SubSeq(self, 1, idx)))

\* C9: the decoder is a two-state machine: at the start of every iteration
\* and at end of input modulus is 0 or 1, equals the number of digits consumed
\* modulo 2, and the output holds floor(digits consumed / 2) bytes; whitespace
\* leaves modulus and output unchanged, a digit toggles modulus and appends
\* one byte exactly on the 1-to-0 transition, and end of input is accepted
\* only with modulus 0.
C9_TwoStateMachine ==
    [][pc = "from_hex" =>
          /\ modulus \in {0, 1}
          /\ modulus = DigitsConsumed % 2
          /\ Len(b) = DigitsConsumed \div 2
          /\ (idx = 0 => modulus = 0)
          /\ (idx < Len(self) /\ self[idx + 1] \in WhitespaceChars) =>
                (modulus' = modulus /\ b' = b)
          /\ (idx < Len(self) /\ self[idx + 1] \in HexDigitChars) =>
                /\ modulus' = 1 - modulus
                /\ IF modulus = 1
                   THEN Len(b') = Len(b) + 1 /\ SubSeq(b', 1, Len(b)) = b
                   ELSE b' = b
          /\ (idx >= Len(self)) => (result'.kind = "Ok" <=> modulus = 0)
      ]_vars

C9_Witness ==
    /\ pc = "from_hex"
    /\ self = <<54, 32, 102, 54>>
    /\ idx = 3
    /\ modulus = 0
    /\ b = <<111>>

\* C10 as stated: on the second nibble from_hex appends the accumulated byte
\* and resets buf to zero, so that when a high nibble is awaited buf holds no
\* bits of an earlier byte and a whitespace byte there leaves buf unchanged.
C10_BufReset ==
    [][pc = "from_hex" =>
          /\ (modulus = 0 => buf = 0)
          /\ (idx < Len(self) /\ self[idx + 1] \in HexDigitChars /\ modulus = 1) =>
                (b' = Append(b, 16 * (buf % 16) + DigitValue(self[idx + 1])) /\ buf' = 0)
          /\ (idx < Len(self) /\ self[idx + 1] \in WhitespaceChars /\ modulus = 0) =>
                buf' = buf
      ]_vars

\* C10 amended: on the second nibble from_hex appends the accumulated byte
\* and buf keeps that byte (it is not reset); when a high nibble is awaited
\* buf is zero before the first byte and otherwise the last emitted byte, or
\* its low nibble once whitespace was processed there (a whitespace byte sets
\* buf to buf & 0x0F); the next two 4-bit shifts of the 8-bit buf discard it.
C10_BufKeepsLastByte ==
    [][pc = "from_hex" =>
          /\ modulus = 0 =>
                IF b = <<>> THEN buf = 0
                ELSE buf \in {b[Len(b)], b[Len(b)] % 16}
          /\ (idx < Len(self) /\ self[idx + 1] \in HexDigitChars /\ modulus = 1) =>
                /\ buf' = 16 * (buf % 16) + DigitValue(self[idx + 1])
                /\ b' = Append(b, buf')
          /\ (idx < Len(self) /\ self[idx + 1] \in WhitespaceChars) =>
                buf' = buf % 16
      ]_vars

C10_Witness ==
    /\ pc = "from_hex"
    /\ self = <<102, 54, 32, 48>>
    /\ idx = 3
    /\ modulus = 0
    /\ b = <<246>>
    /\ buf = 6

====
